---- MODULE Spec2Model ----
(***************************************************************************)
(* A model of src/keras/gpt.py: the single attention Head, the FeedForward *)
(* sublayer, the transformer Block and the top-level TransformerLayer.     *)
(*                                                                         *)
(* The Head is modelled numerically.  Tensors are sequences (positions     *)
(* 1..T stand for the code's positions 0..T-1) of rows of integers; one    *)
(* batch element is modelled, since every operation of Head.call acts on   *)
(* each batch element independently and the mask is broadcast over the     *)
(* batch.  Floating point is modelled in fixed point: a division by a      *)
(* square root keeps FracScale steps of the root, and exp is taken in      *)
(* base 2 with ExpBits bits, so that exp(d) underflows to exactly 0 for    *)
(* d < -ExpBits, as float32 exp does below about -104.  Softmax weights    *)
(* are kept as exact fractions num/den.                                    *)
(*                                                                         *)
(* Block, FeedForward and TransformerLayer are modelled on tensors that    *)
(* carry their shape, the expression that computed them (in postfix        *)
(* form) and, per position, the set of input positions they are computed   *)
(* from.                                                                   *)
(***************************************************************************)
EXTENDS Integers, Sequences, FiniteSets, TLC

VARIABLES
    pc,         \* the module-level script's position
    head,       \* the Head object bound by the module-level script
    call1,      \* the result of a head.call(x)
    call2,      \* the result of a later head.call on x changed at one position
    block,      \* the Block object most recently constructed
    blockNew,   \* the outcome of the most recent Block(...) constructor call
    blockRes,   \* the result of the most recent call of the Block
    model,      \* the TransformerLayer object
    modelRes    \* the result of the most recent call of the TransformerLayer

vars == <<pc, head, call1, call2, block, blockNew, blockRes, model, modelRes>>
headVars == <<pc, head, call1, call2>>
blockVars == <<block, blockNew, blockRes>>
modelVars == <<model, modelRes>>

---------------------------------------------------------------------------
(* Program constants and bounds *)

\* B, T, C = 32, 8, 5: the module-level global C that Head.call reads.
C == 5

\* Keras' Softmax adds (1 - mask) * -1e9 to its input before the softmax.
LargeNegative == -1000000000

\* Conv1D(filters=4, ...) in FeedForward.build.
FFFilters == 4

MaxT == 2
MaxHeadSize == 2
ExpBits == 8
FracScale == 1000
BigX == 25000
MaxB == 2
MaxEmbd == 4
MaxHead == 3
MaxBlock == 2
MaxVocab == 2

None == <<>>

---------------------------------------------------------------------------
(* Arithmetic helpers *)

RECURSIVE SumTo(_, _)
SumTo(f, n) == IF n = 0 THEN 0 ELSE f[n] + SumTo(f, n - 1)

Sum(f) == SumTo(f, Len(f))

RECURSIVE MaxTo(_, _)
MaxTo(f, n) == IF n = 1 THEN f[1]
               ELSE LET m == MaxTo(f, n - 1) IN IF f[n] > m THEN f[n] ELSE m

Abs(a) == IF a < 0 THEN -a ELSE a

RECURSIVE Pow2(_)
Pow2(n) == IF n = 0 THEN 1 ELSE 2 * Pow2(n - 1)

\* The largest r in lo..hi with r * r <= n (bisection).
RECURSIVE ISqrtIn(_, _, _)
ISqrtIn(n, lo, hi) ==
    IF lo >= hi THEN lo
    ELSE LET mid == (lo + hi + 1) \div 2
         IN IF mid * mid <= n THEN ISqrtIn(n, mid, hi) ELSE ISqrtIn(n, lo, mid - 1)

\* math.sqrt(n), in steps of 1 / FracScale.
Sqrt(n) == ISqrtIn(n * FracScale * FracScale, 0, n * FracScale)

\* a / (s / FracScale), rounded down; the quotient and the remainder are scaled
\* separately so that no intermediate value leaves 32 bits.
DivScaled(a, s) == (a \div s) * FracScale + ((a % s) * FracScale) \div s

\* exp(z - m) for z <= m, in base 2 with ExpBits bits: 0 below -ExpBits.
Exp(z, m) == IF z + ExpBits < m THEN 0 ELSE Pow2(ExpBits - (m - z))

---------------------------------------------------------------------------
(* Head: the numeric operations of build and call *)

\* A mask built without np.tril: every entry 1.
Tril_Omitted(n) == [i \in 1..n |-> [j \in 1..n |-> 1]]

\* np.tril(np.ones((n, n))): entry (i, j) is 1 iff j <= i.
Tril(n) == [i \in 1..n |-> [j \in 1..n |-> IF j <= i THEN 1 ELSE 0]]

\* layers.Dense(units, activation=None, use_bias=False) applied to x.
DenseApply(x, kernel) ==
    [t \in 1..Len(x) |->
        [u \in 1..Len(kernel[1]) |->
            Sum([c \in 1..Len(kernel) |-> x[t][c] * kernel[c][u]])]]

\* tf.matmul(q, K.permute_dimensions(k, (0, 2, 1)))
MatMulTransposed(q, k) ==
    [i \in 1..Len(q) |->
        [j \in 1..Len(k) |-> Sum([h \in 1..Len(q[i]) |-> q[i][h] * k[j][h]])]]

\* wei /= math.sqrt(n)
Scale(wei, n) ==
    LET s == Sqrt(n)
    IN [i \in 1..Len(wei) |-> [j \in 1..Len(wei[i]) |-> DivScaled(wei[i][j], s)]]

\* A softmax that is not given the mask.
Softmax_Unmasked(wei, mask) ==
    LET n == Len(wei)
        num == [i \in 1..n |-> [j \in 1..n |-> Exp(wei[i][j], MaxTo(wei[i], n))]]
    IN [num |-> num, den |-> [i \in 1..n |-> Sum(num[i])]]

\* layers.Softmax(axis=-1)(wei, mask): the mask is added as (1 - mask) * -1e9,
\* then each row is exponentiated against its maximum and normalised.  The
\* result keeps each row's numerators and its denominator.
Softmax(wei, mask) ==
    LET n == Len(wei)
        z == [i \in 1..n |-> [j \in 1..n |-> wei[i][j] + (1 - mask[i][j]) * LargeNegative]]
        num == [i \in 1..n |-> [j \in 1..n |-> Exp(z[i][j], MaxTo(z[i], n))]]
    IN [num |-> num, den |-> [i \in 1..n |-> Sum(num[i])]]

\* layers.Dropout(rate) called outside training returns its input.
Dropout(rate, w) == w

\* tf.matmul(wei, v), each row over its softmax denominator.
MatMulWeights(wei, v) ==
    [num |-> [i \in 1..Len(v) |->
                [h \in 1..Len(v[1]) |->
                    Sum([j \in 1..Len(v) |-> wei.num[i][j] * v[j][h]])]],
     den |-> wei.den]

NoHead == [head_size |-> 0, seq_len |-> 0, dropout_rate |-> 0,
           mask |-> None, key |-> None, query |-> None, value |-> None]

\* Head.__init__
Head_init(head_size, seq_len, dropout) ==
    [NoHead EXCEPT !.head_size = head_size, !.seq_len = seq_len,
                   !.dropout_rate = dropout]

\* Head.build: the three Dense layers are created (their kernels on their first
\* call) and the mask is fixed from seq_len.
Head_build(h) == [h EXCEPT !.mask = Tril(h.seq_len),
                           !.key = None, !.query = None, !.value = None]

NoCall == [called |-> FALSE, ok |-> FALSE, err |-> "", x |-> None, raw |-> None,
           scaled |-> None, wei |-> [num |-> None, den |-> None],
           out |-> [num |-> None, den |-> None]]

\* Head.call on a built head whose Dense kernels exist.  A sequence length other
\* than seq_len fails: the mask does not broadcast against wei, or (seq_len = 1)
\* the closing assert fails, or (T = 1) the last matmul's inner dimensions differ.
Head_call(h, x) ==
    IF Len(x) # h.seq_len
    THEN [NoCall EXCEPT !.called = TRUE, !.x = x,
                        !.err = IF h.seq_len = 1 THEN "AssertionError"
                                ELSE "InvalidArgumentError"]
    ELSE LET k == DenseApply(x, h.key)
             q == DenseApply(x, h.query)
             raw == MatMulTransposed(q, k)
             scaled == Scale(raw, C)
             wei == Dropout(h.dropout_rate, Softmax(scaled, h.mask))
             v == DenseApply(x, h.value)
             out == MatMulWeights(wei, v)
         IN [called |-> TRUE, ok |-> TRUE, err |-> "", x |-> x, raw |-> raw,
             scaled |-> scaled, wei |-> wei, out |-> out]

---------------------------------------------------------------------------
(* Head: inputs *)

\* Values of an input entry: a small one, and large ones of either sign.
XVals == {1, BigX, -BigX}

\* Input rows of C channels.
XRows == {[c \in 1..C |-> IF c = 1 THEN v ELSE 0] : v \in XVals}

Inputs(t) == [1..t -> XRows]

\* Kernels of a Dense layer from cin to units channels.
WVals == {-1, 1}
Kernel(w, cin, units) == [c \in 1..cin |-> [u \in 1..units |-> w]]

---------------------------------------------------------------------------
(* Head: the module-level script's operations *)

\* head = Head(3, T, 0), for any head size and sequence length
HeadInit ==
    /\ pc = "Head"
    /\ pc' = "build"
    /\ \E hs \in 1..MaxHeadSize, sl \in 1..MaxT : head' = Head_init(hs, sl, 0)
    /\ UNCHANGED <<call1, call2, blockVars, modelVars>>

\* head.build((T, C))
HeadBuild ==
    /\ pc = "build"
    /\ pc' = "call"
    /\ head' = Head_build(head)
    /\ UNCHANGED <<call1, call2, blockVars, modelVars>>

\* The head with the kernels its Dense layers get on their first call, on an
\* input of C channels.
WithKernels(h, wk, wq, wv) ==
    [h EXCEPT !.key = Kernel(wk, C, h.head_size),
              !.query = Kernel(wq, C, h.head_size),
              !.value = Kernel(wv, C, h.head_size)]

\* x = tf.convert_to_tensor(np.random.random((B, T, C))); head.call(x)
HeadCall ==
    /\ pc = "call"
    /\ pc' = "end"
    /\ \E t \in 1..MaxT, wk \in WVals, wq \in WVals, wv \in WVals :
         \E x \in Inputs(t) :
            /\ head' = WithKernels(head, wk, wq, wv)
            /\ call1' = Head_call(head', x)
    /\ UNCHANGED <<call2, blockVars, modelVars>>

\* head.call again, on the input of the first call changed at one position.
HeadCallPerturbed ==
    /\ pc = "end"
    /\ call1.ok
    /\ \E j \in 1..Len(call1.x), row \in XRows :
         /\ row # call1.x[j]
         /\ call2' = Head_call(head, [call1.x EXCEPT ![j] = row])
    /\ UNCHANGED <<pc, head, call1, blockVars, modelVars>>

---------------------------------------------------------------------------
(* Tensors of Block, FeedForward and TransformerLayer: the shape, the       *)
(* computing expression in postfix form, and per position of the time axis  *)
(* (the axis before the last) the set of input positions it is computed     *)
(* from.                                                                    *)

ErrT(e) == [err |-> e, shape |-> <<>>, expr |-> <<>>, deps |-> <<>>]

Tensor(shape, expr, deps) == [err |-> "", shape |-> shape, expr |-> expr, deps |-> deps]

Max(a, b) == IF a > b THEN a ELSE b

\* A shape padded on the left with 1s to rank n.
Pad(s, n) == [i \in 1..n |-> IF i <= n - Len(s) THEN 1 ELSE s[i - (n - Len(s))]]

\* The broadcast of two shapes; <<>> when they are incompatible.
Broadcast(s1, s2) ==
    LET n == Max(Len(s1), Len(s2))
        a == Pad(s1, n)
        b == Pad(s2, n)
    IN IF \A i \in 1..n : a[i] = b[i] \/ a[i] = 1 \/ b[i] = 1
       THEN [i \in 1..n |-> Max(a[i], b[i])]
       ELSE <<>>

\* The positions row i of a broadcast operand is computed from.
DepAt(t, i) == IF Len(t.deps) = 1 THEN t.deps[1] ELSE t.deps[i]

\* a + b, elementwise with broadcasting.
Add(a, b) ==
    IF a.err # "" THEN a
    ELSE IF b.err # "" THEN b
    ELSE LET s == Broadcast(a.shape, b.shape)
         IN IF s = <<>> THEN ErrT("InvalidArgumentError")
            ELSE Tensor(s, a.expr \o b.expr \o <<"add">>,
                        [i \in 1..s[Len(s) - 1] |-> DepAt(a, i) \cup DepAt(b, i)])

\* A layer acting on each position alone, giving `units` channels.
Pointwise(x, units, name) ==
    IF x.err # "" THEN x
    ELSE Tensor([x.shape EXCEPT ![Len(x.shape)] = units], x.expr \o <<name>>, x.deps)

\* layers.LayerNormalization(epsilon=...), over the channel axis.  A single
\* channel is its own mean, so its normalisation is the layer's constant shift.
LayerNormalization(x, name) ==
    IF x.err # "" THEN x
    ELSE IF x.shape[Len(x.shape)] = 1
    THEN Tensor(x.shape, x.expr \o <<name>>, [i \in 1..Len(x.deps) |-> {}])
    ELSE Pointwise(x, x.shape[Len(x.shape)], name)

\* layers.Conv1D(filters=filters, kernel_size=1, ...)
Conv1D(x, filters, name) == Pointwise(x, filters, name)

\* layers.Dense(units, activation=None)
Dense(x, units, name) == Pointwise(x, units, name)

\* layers.Dropout(rate) on a tensor.
DropoutLayer(x, name) ==
    IF x.err # "" THEN x ELSE Pointwise(x, x.shape[Len(x.shape)], name)

\* Whether position i may attend to position j under an attention mask.
Attends(mask, i, j) == mask = None \/ mask[i][j] = 1

\* layers.MultiHeadAttention(key_dim, num_heads, output_shape)(query=x, value=x,
\* key=x, attention_mask=mask): every head applies the one mask it is given.
MultiHeadAttention(x, num_heads, key_dim, output_shape, mask) ==
    IF x.err # "" THEN [out |-> x, attention_mask |-> mask, attend |-> <<>>]
    ELSE LET t == x.shape[Len(x.shape) - 1]
             pairs == {p \in (1..t) \X (1..t) : Attends(mask, p[1], p[2])}
         IN [out |-> Tensor([x.shape EXCEPT ![Len(x.shape)] = output_shape],
                            x.expr \o x.expr \o x.expr \o <<"mha">>,
                            [i \in 1..t |->
                                UNION {x.deps[j] : j \in {k \in 1..t : <<i, k>> \in pairs}}]),
             attention_mask |-> mask,
             attend |-> [h \in 1..num_heads |-> pairs]]

\* multi_head_self_attention_layer(num_heads, head_size)(x)
multi_head_self_attention_layer(num_heads, head_size, x) ==
    MultiHeadAttention(x, num_heads, head_size, num_heads * head_size, None)

---------------------------------------------------------------------------
(* FeedForward *)

NoFeedForward == [exists |-> FALSE, n_embd |-> 0, dropout |-> 0]

\* FeedForward.__init__
FeedForward_init(n_embd, dropout) == [exists |-> TRUE, n_embd |-> n_embd, dropout |-> dropout]

NoFFRes == [called |-> FALSE, x |-> ErrT(""), hidden |-> ErrT(""), out |-> ErrT("")]

\* FeedForward.build and FeedForward.call: the Sequential net on x.
FeedForward_call(f, x) ==
    LET norm == LayerNormalization(x, "ffwd.LayerNormalization")
        hidden == Conv1D(norm, FFFilters, "ffwd.Conv1D_relu")
        proj == Conv1D(hidden, f.n_embd, "ffwd.Conv1D")
    IN [called |-> TRUE, x |-> x, hidden |-> hidden,
        out |-> DropoutLayer(proj, "ffwd.Dropout")]

---------------------------------------------------------------------------
(* Block *)

NoBlock == [attrs |-> {}, n_embd |-> 0, n_head |-> 0, head_size |-> 0, dropout |-> 0,
            built |-> FALSE, layers |-> {}, ffwd |-> NoFeedForward]

NoBlockNew == [called |-> FALSE, n_embd |-> 0, n_head |-> 0, err |-> "", obj |-> NoBlock]

\* A constructor without the assert: head_size is the truncated quotient.
Block_init_NoAssert(n_embd, n_head, dropout) ==
    [called |-> TRUE, n_embd |-> n_embd, n_head |-> n_head, err |-> "",
     obj |-> [NoBlock EXCEPT !.attrs = {"n_embd", "n_head", "head_size", "dropout"},
                             !.n_embd = n_embd, !.n_head = n_head,
                             !.head_size = n_embd \div n_head,
                             !.dropout = dropout]]

\* Block.__init__: the assert comes first; on its failure no attribute is set.
Block_init(n_embd, n_head, dropout) ==
    IF n_embd % n_head # 0
    THEN [called |-> TRUE, n_embd |-> n_embd, n_head |-> n_head,
          err |-> "AssertionError", obj |-> NoBlock]
    ELSE [called |-> TRUE, n_embd |-> n_embd, n_head |-> n_head, err |-> "",
          obj |-> [NoBlock EXCEPT !.attrs = {"n_embd", "n_head", "head_size", "dropout"},
                                  !.n_embd = n_embd, !.n_head = n_head,
                                  !.head_size = n_embd \div n_head,
                                  !.dropout = dropout]]

\* Block.build
Block_build(b) == [b EXCEPT !.built = TRUE, !.layers = {"sa", "ffwd", "ln1", "ln2"},
                            !.ffwd = FeedForward_init(b.n_embd, b.dropout)]

NoBlockRes == [called |-> FALSE, x |-> ErrT(""), y |-> ErrT(""), out |-> ErrT(""),
               attention_mask |-> None, attend |-> <<>>, ff |-> NoFFRes]

\* A call that normalises after each residual sum instead of before each
\* sublayer.
Block_call_PostNorm(b, x) ==
    LET sa == multi_head_self_attention_layer(b.n_head, b.head_size, x)
        y == LayerNormalization(Add(x, sa.out), "ln1")
        ff == FeedForward_call(b.ffwd, y)
        out == LayerNormalization(Add(y, ff.out), "ln2")
    IN [called |-> TRUE, x |-> x, y |-> y, out |-> out,
        attention_mask |-> sa.attention_mask, attend |-> sa.attend, ff |-> ff]

\* Block.call
Block_call(b, x) ==
    LET sa == multi_head_self_attention_layer(b.n_head, b.head_size,
                                              LayerNormalization(x, "ln1"))
        y == Add(x, sa.out)
        ff == FeedForward_call(b.ffwd, LayerNormalization(y, "ln2"))
        out == Add(y, ff.out)
    IN [called |-> TRUE, x |-> x, y |-> y, out |-> out,
        attention_mask |-> sa.attention_mask, attend |-> sa.attend, ff |-> ff]

\* An input of the Block: (B, T, n_embd), each position computed from itself.
BlockInput(bsz, t, c) == Tensor(<<bsz, t, c>>, <<"x">>, [i \in 1..t |-> {i}])

---------------------------------------------------------------------------
(* Block: operations *)

\* Block(n_embd, n_head, dropout): the name is bound only when __init__ returns.
BlockInit ==
    /\ \E n_embd \in 1..MaxEmbd, n_head \in 1..MaxHead :
         /\ blockNew' = Block_init(n_embd, n_head, 0)
         /\ block' = IF blockNew'.err = "" THEN blockNew'.obj ELSE block
    /\ blockRes' = NoBlockRes
    /\ UNCHANGED <<headVars, modelVars>>

\* block(x): Layer.__call__ builds the layer on its first call, then calls it;
\* the call runs the Block's FeedForward on the normalised first residual sum.
BlockCall ==
    /\ block.attrs # {}
    /\ \E bsz \in 1..MaxB, t \in 1..MaxT :
         /\ block' = IF block.built THEN block ELSE Block_build(block)
         /\ blockRes' = Block_call(block', BlockInput(bsz, t, block.n_embd))
    /\ UNCHANGED <<blockNew, headVars, modelVars>>

---------------------------------------------------------------------------
(* TransformerLayer *)

NoModel == [exists |-> FALSE, vocab_size |-> 0, n_embd |-> 0, n_head |-> 0, n_block |-> 0,
            dropout |-> 0, built |-> FALSE, block_size |-> 0, blocks |-> <<>>,
            layers |-> {}]

\* TransformerLayer.__init__: the five arguments are stored as given.
TransformerLayer_init(vocab_size, n_embd, n_head, n_block, dropout) ==
    [NoModel EXCEPT !.exists = TRUE, !.vocab_size = vocab_size, !.n_embd = n_embd,
                    !.n_head = n_head, !.n_block = n_block, !.dropout = dropout]

\* TransformerLayer.build(input_shape): block_size and the two embedding tables
\* are set, then the Blocks are constructed; a failing Block constructor ends the
\* build there, and the layer stays unbuilt.
TransformerLayer_build(m, input_shape) ==
    LET made == [i \in 1..m.n_block |-> Block_init(m.n_embd, m.n_head, m.dropout)]
        m1 == [m EXCEPT !.block_size = input_shape[2],
                        !.layers = {"token_embedding_table", "position_embedding_table"}]
    IN IF \E i \in 1..m.n_block : made[i].err # ""
       THEN [err |-> "AssertionError", obj |-> m1]
       ELSE [err |-> "",
             obj |-> [m1 EXCEPT !.blocks = [i \in 1..m.n_block |-> made[i].obj],
                                !.layers = @ \cup {"blocks", "ln_f", "lm_head"},
                                !.built = TRUE]]

\* keras.Sequential of the first n Blocks, each called on the output of the last.
RECURSIVE Sequential(_, _, _)
Sequential(blocks, n, x) ==
    IF n = 0 THEN x
    ELSE Block_call(Block_build(blocks[n]), Sequential(blocks, n - 1, x)).out

NoModelRes == [called |-> FALSE, err |-> "", stage |-> "", idx_shape |-> <<>>,
               block_size |-> 0, pos_idx |-> {}, logits |-> ErrT("")]

\* TransformerLayer.call(idx) on a built layer, idx of shape idx_shape = (B, T).
TransformerLayer_call(m, idx_shape) ==
    LET t == idx_shape[2]
        tok_emb == Tensor(idx_shape \o <<m.n_embd>>, <<"idx", "token_embedding_table">>,
                          [i \in 1..t |-> {i}])
        pos_idx == 0..(m.block_size - 1)
        pos_emb == Tensor(<<Cardinality(pos_idx), m.n_embd>>,
                          <<"range", "position_embedding_table">>,
                          [i \in 1..Cardinality(pos_idx) |-> {}])
        x == Add(tok_emb, pos_emb)
        x2 == Sequential(m.blocks, Len(m.blocks), x)
        x3 == LayerNormalization(x2, "ln_f")
        logits == Dense(x3, m.vocab_size, "lm_head")
    IN [called |-> TRUE, err |-> logits.err, stage |-> "call", idx_shape |-> idx_shape,
        block_size |-> m.block_size, pos_idx |-> pos_idx, logits |-> logits]

---------------------------------------------------------------------------
(* TransformerLayer: operations *)

\* TransformerLayer(vocab_size, n_embd, n_head, n_block, dropout)
ModelInit ==
    /\ \E v \in 1..MaxVocab, n_embd \in 1..MaxEmbd, n_head \in 1..MaxHead,
          n_block \in 1..MaxBlock :
         model' = TransformerLayer_init(v, n_embd, n_head, n_block, 0)
    /\ modelRes' = NoModelRes
    /\ UNCHANGED <<headVars, blockVars>>

\* model(idx): Layer.__call__ builds an unbuilt layer from the input's shape,
\* then calls it; an error in build is the call's error.
ModelCall ==
    /\ model.exists
    /\ \E bsz \in 1..MaxB, t \in 1..MaxT :
         LET b == IF model.built THEN [err |-> "", obj |-> model]
                  ELSE TransformerLayer_build(model, <<bsz, t>>)
         IN /\ model' = b.obj
            /\ modelRes' = IF b.err # ""
                           THEN [NoModelRes EXCEPT !.called = TRUE, !.err = b.err,
                                                   !.stage = "build",
                                                   !.idx_shape = <<bsz, t>>,
                                                   !.block_size = b.obj.block_size]
                           ELSE TransformerLayer_call(b.obj, <<bsz, t>>)
    /\ UNCHANGED <<headVars, blockVars>>

---------------------------------------------------------------------------
(* Specifications.  The three components share no state: each is checked   *)
(* under the specification of its own operations.                          *)

Init ==
    /\ pc = "Head"
    /\ head = NoHead
    /\ call1 = NoCall
    /\ call2 = NoCall
    /\ block = NoBlock
    /\ blockNew = NoBlockNew
    /\ blockRes = NoBlockRes
    /\ model = NoModel
    /\ modelRes = NoModelRes

NextHead == HeadInit \/ HeadBuild \/ HeadCall \/ HeadCallPerturbed

NextBlock == BlockInit \/ BlockCall

NextModel == ModelInit \/ ModelCall

Next == NextHead \/ NextBlock \/ NextModel

SpecHead == Init /\ [][NextHead]_vars

SpecBlock == Init /\ [][NextBlock]_vars

SpecModel == Init /\ [][NextModel]_vars

Spec == Init /\ [][Next]_vars

---------------------------------------------------------------------------
(* Claims about Head, under SpecHead *)

Calls == {call1, call2}

\* Every scaled affinity score of the call is below lim in magnitude.
ScoresBelow(c, lim) ==
    \A i \in 1..Len(c.scaled) : \A j \in 1..Len(c.scaled) : Abs(c.scaled[i][j]) < lim

\* Scores this far from the mask's -1e9 cannot outweigh it.
SafeScore == 4 * 10^8

SameUpTo(a, b, i) == \A k \in 1..i : a.x[k] = b.x[k]

OutRow(c, i) == <<c.out.num[i], c.out.den[i]>>

\* Output row i of the two calls agrees whenever their inputs agree on rows 1..i.
Causal(a, b) ==
    \A i \in 1..Len(a.x) : SameUpTo(a, b, i) => OutRow(a, i) = OutRow(b, i)

MaskLowerTriangular ==
    \A i \in 1..head.seq_len : \A j \in 1..head.seq_len :
        /\ head.mask[i][j] \in {0, 1}
        /\ head.mask[i][j] = 1 <=> j <= i

\* Row i of the attention weights is 0 at every j > i and sums to 1 over j <= i.
RowsMasked(c) ==
    \A i \in 1..Len(c.x) :
        /\ \A j \in 1..Len(c.x) : j > i => c.wei.num[i][j] = 0
        /\ c.wei.den[i] > 0
        /\ Sum([j \in 1..i |-> c.wei.num[i][j]]) = c.wei.den[i]

C3_ScaledByHeadSize ==
    \A c \in Calls : c.ok => c.scaled = Scale(c.raw, head.head_size)

---------------------------------------------------------------------------
(* Claims about Block and its FeedForward, under SpecBlock *)

\* Attention(e): the attention sublayer applied to the tensor computed by e.
AttentionOf(e) == e \o e \o e \o <<"mha">>

\* FeedForward(e): the feed-forward sublayer applied to the tensor computed by e.
FeedForwardOf(e) ==
    e \o <<"ffwd.LayerNormalization", "ffwd.Conv1D_relu", "ffwd.Conv1D", "ffwd.Dropout">>

\* C4: every head of the Block's attention applies the causal mask: no position
\* i attends to a position j > i, so output position i is not computed from
\* input position j > i.
C4_BlockCausalPerHead ==
    blockRes.called =>
        /\ \A h \in 1..Len(blockRes.attend) :
             \A p \in blockRes.attend[h] : p[2] <= p[1]
        /\ \A i \in 1..Len(blockRes.out.deps) :
             \A j \in blockRes.out.deps[i] : j <= i

C6_IndivisibleRejected ==
    /\ (blockNew.called /\ blockNew.n_embd % blockNew.n_head # 0) =>
          /\ blockNew.err # ""
          /\ blockNew.obj.attrs = {}
          /\ blockNew.obj.layers = {}
    /\ block.attrs # {} =>
          /\ block.n_embd % block.n_head = 0
          /\ block.head_size * block.n_head = block.n_embd

\* C6's case: the constructor was last called with n_embd not divisible by
\* n_head, after a Block had been constructed and built.
C6_Witness ==
    /\ blockNew.called
    /\ blockNew.n_embd % blockNew.n_head # 0
    /\ block.built

\* C10: FeedForward expands the channels to 4 * n_embd, more than n_embd, and
\* projects back, so the output has the shape of the input.
C10_HiddenFourTimesWider ==
    blockRes.ff.called =>
        /\ blockRes.ff.hidden.shape[3] = 4 * block.ffwd.n_embd
        /\ blockRes.ff.hidden.shape[3] > block.ffwd.n_embd
        /\ blockRes.ff.out.shape = blockRes.ff.x.shape

---------------------------------------------------------------------------
(* Claims about TransformerLayer, under SpecModel *)

\* C7: a TransformerLayer whose n_embd is not divisible by n_head is rejected at
\* construction: no such object exists.
C7_RejectedAtConstruction == model.exists => model.n_embd % model.n_head = 0

\* C8: every forward pass with T no longer than the length fixed at build looks
\* up the positions 0..T-1 and returns logits of shape (B, T, V).
C8_PositionsOfTheCall ==
    (modelRes.called /\ modelRes.stage = "call"
        /\ modelRes.idx_shape[2] <= modelRes.block_size) =>
        /\ modelRes.err = ""
        /\ modelRes.pos_idx = 0..(modelRes.idx_shape[2] - 1)
        /\ modelRes.logits.shape = modelRes.idx_shape \o <<model.vocab_size>>

\* C9: every forward pass with T longer than the length fixed at build fails.
C9_TooLongFails ==
    (modelRes.called /\ modelRes.stage = "call"
        /\ modelRes.idx_shape[2] > modelRes.block_size) => modelRes.err # ""

====
